---------------------------- MODULE Spec2Model ----------------------------
(***************************************************************************)
(* Verification model of the channel resolution scripts:                   *)
(*   src/Events/events.py      validate_single, build_stream_map,          *)
(*                             extract_channel_info, build_epg_lookup,     *)
(*                             generate_brand_variations,                  *)
(*                             find_best_epg_match                         *)
(*   src/all_channels/main.py  validate_links.check (the same probe loop)  *)
(*                                                                         *)
(* Spec         : build_stream_map, the worker pool and its aggregation    *)
(*                loop.                                                    *)
(* SpecValidate : one call of the probe loop, probe by probe.              *)
(* SpecEpg      : build_epg_lookup over a reference list, then calls of    *)
(*                find_best_epg_match against the finished lookup.         *)
(* SpecEntries  : the channel entries of one event, through                *)
(*                extract_channel_ids and then make_playlist.              *)
(***************************************************************************)
EXTENDS Integers, Sequences, FiniteSets, TLC

VARIABLES
    phase,        \* per candidate URL: "new", "queued", "running", "finished"
    future,       \* per candidate URL: what its Future holds once finished
    submitted,    \* how many futures line 370 has submitted so far
    pcMain,       \* build_stream_map: "submit", "loop", "done", "crashed"
    prefinished,  \* as_completed: futures found finished when it was called
    waiterQ,      \* as_completed: waiter.finished_futures, in completion order
    yielded,      \* futures the aggregation loop has consumed
    id_to_url,    \* the StreamMap under construction
    firstRaised,  \* history: the first candidate one of whose probes raised, or None
    probedLate,   \* history: candidates probed again after a probe raised
    firstAccepted,\* history: per identifier, the accepted candidate that completed first
    snapshot,     \* history: the futures already finished when as_completed was called
    impl,         \* SpecValidate: which probe loop runs, "validate_single" or "check"
    vurl,         \* SpecValidate: the URL the probe loop was called with
    frame,        \* SpecValidate: the locals of the call, with its probe log
    pcEpg,          \* SpecEpg: "build" while the lines are read, then "match"
    epg_text_lines, \* SpecEpg: the lines build_epg_lookup has read so far
    epg_lookup,     \* SpecEpg: the dict epg_lookup
    hash_seed,      \* SpecEpg: the salt of str hashes in the current run
    cname,          \* SpecEpg: the channel name of the last match, <<>> before it
    epg_id,         \* SpecEpg: what the last find_best_epg_match returned
    event,          \* SpecEntries: the event, its fields "channels" and "channels2"
    pcEntries,      \* SpecEntries: "extract", "playlist", "done" or "raised"
    cursor,         \* SpecEntries: how many entries the current loop has consumed
    ids,            \* SpecEntries: the set ids of extract_channel_ids
    named,          \* SpecEntries: the (cid, cname) pairs make_playlist has read
    produced        \* SpecEntries: the pairs make_playlist has written an entry for

poolVars == <<phase, future, submitted, pcMain, prefinished, waiterQ,
              yielded, id_to_url, firstRaised, probedLate, firstAccepted, snapshot>>

validateVars == <<impl, vurl, frame>>

epgVars == <<pcEpg, epg_text_lines, epg_lookup, hash_seed, cname, epg_id>>

entryVars == <<event, pcEntries, cursor, ids, named, produced>>

vars == <<poolVars, validateVars, epgVars, entryVars>>

-----------------------------------------------------------------------------
(* Bounds of the model *)

\* number of channel identifiers handed to build_stream_map
NumIds == 2

\* width of the worker pool (the workers parameter of build_stream_map)
Workers == 2

\* number of mirror templates of URL_TEMPLATES that are modelled
NumTemplates == 2

-----------------------------------------------------------------------------
(* Candidate generation: URL_TEMPLATES and tpl.format(num=i) *)

channel_ids == 1..NumIds

URL_TEMPLATES == 1..NumTemplates

\* tpl.format(num=i): each template has its own host, so a URL is determined
\* by, and determines, the pair (template, identifier).
Format(tpl, i) == [tpl |-> tpl, num |-> i]

\* Python's None
None == [tpl |-> 0, num |-> 0]

\* candidates = {tpl.format(num=i): i for i in channel_ids for tpl in URL_TEMPLATES}
candidates ==
    [u \in {Format(tpl, i) : tpl \in URL_TEMPLATES, i \in channel_ids} |->
        CHOOSE i \in channel_ids : \E tpl \in URL_TEMPLATES : Format(tpl, i) = u]

Urls == DOMAIN candidates

\* iteration order of the candidates dict (insertion order): identifier-major,
\* template-minor
UrlSeq ==
    [k \in 1..(NumIds * NumTemplates) |->
        Format(((k - 1) % NumTemplates) + 1, ((k - 1) \div NumTemplates) + 1)]

-----------------------------------------------------------------------------
(* validate_single: the probe loop of one URL *)

\* for _ in range(3)
MaxAttempts == 3

StatusCodes == {200, 404, 410, 429, 503}

\* what requests.head / requests.get can do: return a response with a status
\* code, or raise requests.RequestException (connection failure, timeout)
Responses ==
    {[exc |-> FALSE, status_code |-> s] : s \in StatusCodes}
        \cup {[exc |-> TRUE, status_code |-> 0]}

\* entry of validate_single: first iteration, about to issue the HEAD probe.
\* slept counts the time.sleep(5) calls; log is the history of the probes
\* issued so far, <<method, attempt, response>>.
EnterValidate ==
    [attempt |-> 1, pc |-> "head", res |-> None, exc |-> FALSE,
     slept |-> 0, log |-> <<>>]

Return(f, value) == [f EXCEPT !.pc = "return", !.res = value]

\* the exception leaves validate_single and is stored in the Future
RequestExceptionPropagates(f) == [f EXCEPT !.pc = "return", !.res = None, !.exc = TRUE]

\* except requests.RequestException: return None
OnRequestException(f) == Return(f, None)

\* continue / fall off the end of the loop body: next iteration, or the
\* final return None once range(3) is exhausted
NextAttempt(f) ==
    IF f.attempt < MaxAttempts
    THEN [f EXCEPT !.attempt = f.attempt + 1, !.pc = "head"]
    ELSE Return(f, None)

\* the HEAD step without its 404 test: a 404 falls through to the GET probe
AfterHeadWithout404(f, url, r) ==
    IF r.exc THEN OnRequestException(f)
    ELSE IF r.status_code = 200 THEN Return(f, url)
    ELSE IF r.status_code = 429
         THEN NextAttempt([f EXCEPT !.slept = f.slept + 1])
    ELSE [f EXCEPT !.pc = "get"]

\* the HEAD step with the `continue` of its 429 branch missing: after the
\* sleep the GET probe of the same attempt is issued
AfterHeadWithoutContinue(f, url, r) ==
    IF r.exc THEN OnRequestException(f)
    ELSE IF r.status_code = 200 THEN Return(f, url)
    ELSE IF r.status_code = 404 THEN Return(f, None)
    ELSE IF r.status_code = 429 THEN [f EXCEPT !.slept = f.slept + 1, !.pc = "get"]
    ELSE [f EXCEPT !.pc = "get"]

\* r = requests.head(...) and the three status tests that follow it
AfterHead(f, url, r) ==
    IF r.exc THEN OnRequestException(f)
    ELSE IF r.status_code = 200 THEN Return(f, url)
    ELSE IF r.status_code = 404 THEN Return(f, None)
    ELSE IF r.status_code = 429                       \* time.sleep(5); continue
         THEN NextAttempt([f EXCEPT !.slept = f.slept + 1])
    ELSE [f EXCEPT !.pc = "get"]

\* the GET step sleeping before the next attempt, as the 429 branch does
AfterGetWithBackoff(f, url, r) ==
    IF r.exc THEN OnRequestException(f)
    ELSE IF r.status_code = 200 THEN Return(f, url)
    ELSE IF r.status_code = 404 THEN Return(f, None)
    ELSE NextAttempt([f EXCEPT !.slept = f.slept + 1])

\* r = requests.get(...) and the two status tests that follow it
AfterGet(f, url, r) ==
    IF r.exc THEN OnRequestException(f)
    ELSE IF r.status_code = 200 THEN Return(f, url)
    ELSE IF r.status_code = 404 THEN Return(f, None)
    ELSE NextAttempt(f)


\* main.py, check: the same loop with the 429 test ahead of the 404 test
CheckAfterHead(f, url, r) ==
    IF r.exc THEN OnRequestException(f)
    ELSE IF r.status_code = 200 THEN Return(f, url)
    ELSE IF r.status_code = 429
         THEN NextAttempt([f EXCEPT !.slept = f.slept + 1])
    ELSE IF r.status_code = 404 THEN Return(f, None)
    ELSE [f EXCEPT !.pc = "get"]

\* main.py, check: the fallback GET and its two status tests
CheckAfterGet(f, url, r) ==
    IF r.exc THEN OnRequestException(f)
    ELSE IF r.status_code = 200 THEN Return(f, url)
    ELSE IF r.status_code = 404 THEN Return(f, None)
    ELSE NextAttempt(f)

\* the entry a probe leaves in the log
LogEntry(f, r) == [method |-> f.pc, attempt |-> f.attempt, r |-> r]

\* one probe of validate_single in frame f, answered by r
Probe(f, url, r) ==
    LET g == IF f.pc = "head" THEN AfterHead(f, url, r) ELSE AfterGet(f, url, r)
    IN  [g EXCEPT !.log = Append(f.log, LogEntry(f, r))]

\* the frames validate_single(url) can return in, from frame f on, over
\* every sequence of responses of the network
RECURSIVE RunFrom(_, _)
RunFrom(f, url) ==
    IF f.pc = "return" THEN {f}
    ELSE UNION {RunFrom(Probe(f, url, r), url) : r \in Responses}

\* a probe of the log raised
Raised(log) == \E k \in DOMAIN log : log[k].r.exc

\* a probe was issued after one that raised
ProbedAfterRaise(log) == \E k \in DOMAIN log : log[k].r.exc /\ k < Len(log)

\* validate_single(url): the outcomes of the call, each with what the pool
\* sees of it (the value returned or the exception that escaped) and the
\* summary of its probes
validate_single ==
    [url \in Urls |->
        {[res |-> f.res, exc |-> f.exc, raised |-> Raised(f.log),
          late |-> ProbedAfterRaise(f.log)] : f \in RunFrom(EnterValidate, url)}]

-----------------------------------------------------------------------------
(* Python strings: a str is the sequence of its characters *)

UpperCase == <<"A", "B", "C", "D", "E", "F", "G", "H", "I", "J", "K", "L", "M", "N", "O", "P", "Q", "R", "S", "T", "U", "V", "W", "X", "Y", "Z">>

LowerCase == <<"a", "b", "c", "d", "e", "f", "g", "h", "i", "j", "k", "l", "m", "n", "o", "p", "q", "r", "s", "t", "u", "v", "w", "x", "y", "z">>

DigitChars == {"0", "1", "2", "3", "4", "5", "6", "7", "8", "9"}

\* position of character c in the sequence s, 0 when absent
IndexIn(c, s) == IF \E k \in DOMAIN s : s[k] = c
                 THEN CHOOSE k \in DOMAIN s : s[k] = c ELSE 0

IsUpper(c) == IndexIn(c, UpperCase) # 0

IsLetter(c) == IndexIn(c, UpperCase) # 0 \/ IndexIn(c, LowerCase) # 0

IsDigit(c) == c \in DigitChars

\* \s of the re module (the inputs hold no other blank than the space)
IsSpace(c) == c = " "

\* \w of the re module
IsWord(c) == IsLetter(c) \/ IsDigit(c) \/ c = "_"

LowerChar(c) == IF IsUpper(c) THEN LowerCase[IndexIn(c, UpperCase)] ELSE c

UpperChar(c) == IF IndexIn(c, LowerCase) # 0 THEN UpperCase[IndexIn(c, LowerCase)] ELSE c

SetMin(S) == CHOOSE x \in S : \A y \in S : x <= y

SetMax(S) == CHOOSE x \in S : \A y \in S : x >= y

\* s[i:] of Python, for the 0-based index i
From(s, i) == SubSeq(s, i + 1, Len(s))

\* s[:i]
UpTo(s, i) == SubSeq(s, 1, IF i < Len(s) THEN i ELSE Len(s))

\* str.lower()
lower(s) == [k \in DOMAIN s |-> LowerChar(s[k])]

\* str.strip()
strip(s) ==
    LET idx == {k \in DOMAIN s : ~IsSpace(s[k])}
    IN  IF idx = {} THEN <<>> ELSE SubSeq(s, SetMin(idx), SetMax(idx))

\* str.title(): a letter that follows a non-letter is upper-cased, every
\* other letter lower-cased
title(s) ==
    [k \in DOMAIN s |->
        IF k = 1 \/ ~IsLetter(s[k - 1]) THEN UpperChar(s[k]) ELSE LowerChar(s[k])]

\* str.startswith(p)
startswith(s, p) == Len(p) <= Len(s) /\ SubSeq(s, 1, Len(p)) = p

\* str.endswith(p)
endswith(s, p) == Len(p) <= Len(s) /\ SubSeq(s, Len(s) - Len(p) + 1, Len(s)) = p

\* sub occurs in s at the 1-based position k
OccursAt(s, sub, k) ==
    k >= 1 /\ k + Len(sub) - 1 <= Len(s) /\ SubSeq(s, k, k + Len(sub) - 1) = sub

\* sub in s
Contains(sub, s) == \E k \in 1..(Len(s) + 1) : OccursAt(s, sub, k)

\* str.find, 1-based, 0 when absent
Find(s, sub) ==
    IF Contains(sub, s)
    THEN SetMin({k \in 1..(Len(s) + 1) : OccursAt(s, sub, k)}) ELSE 0

\* str.replace(old, new) for a non-empty old
RECURSIVE replace(_, _, _)
replace(s, old, new) ==
    LET k == Find(s, old)
    IN  IF k = 0 THEN s
        ELSE SubSeq(s, 1, k - 1) \o new
                \o replace(SubSeq(s, k + Len(old), Len(s)), old, new)

\* str.split(c) for a one-character separator
RECURSIVE split(_, _)
split(s, c) ==
    LET k == IndexIn(c, s)
    IN  IF k = 0 THEN <<s>>
        ELSE <<SubSeq(s, 1, k - 1)>> \o split(SubSeq(s, k + 1, Len(s)), c)

\* str.split(): the runs of non-blank characters
RECURSIVE words(_)
words(s) ==
    LET idx == {k \in DOMAIN s : ~IsSpace(s[k])}
    IN  IF idx = {} THEN <<>>
        ELSE LET b == SetMin(idx)
                 ends == {k \in b..Len(s) : IsSpace(s[k])}
                 e == IF ends = {} THEN Len(s) + 1 ELSE SetMin(ends)
             IN  <<SubSeq(s, b, e - 1)>> \o words(SubSeq(s, e, Len(s)))

\* sep.join(parts)
RECURSIVE join(_, _)
join(sep, parts) ==
    IF parts = <<>> THEN <<>>
    ELSE IF Len(parts) = 1 THEN parts[1]
    ELSE parts[1] \o sep \o join(sep, Tail(parts))

\* re.sub(r'[^a-zA-Z0-9\s]', ' ', s)
SubNonAlnum(s) ==
    [k \in DOMAIN s |->
        IF IsLetter(s[k]) \/ IsDigit(s[k]) \/ IsSpace(s[k]) THEN s[k] ELSE " "]

\* re.sub(r'\s+', ' ', s)
RECURSIVE CollapseSpaces(_)
CollapseSpaces(s) ==
    IF s = <<>> THEN <<>>
    ELSE IF IsSpace(s[1])
         THEN LET rest == {k \in DOMAIN s : ~IsSpace(s[k])}
              IN  IF rest = {} THEN <<" ">>
                  ELSE <<" ">> \o CollapseSpaces(SubSeq(s, SetMin(rest), Len(s)))
    ELSE <<s[1]>> \o CollapseSpaces(Tail(s))

\* re.sub(r'\s+', '', s)
RemoveSpaces(s) == SelectSeq(s, LAMBDA c : ~IsSpace(c))

\* \b between the first p characters of s and the rest
WordBoundary(s, p) ==
    (p >= 1 /\ p <= Len(s) /\ IsWord(s[p])) #
        (p + 1 >= 1 /\ p + 1 <= Len(s) /\ IsWord(s[p + 1]))

\* the alternatives of alts (in the order of the pattern) that
\* \b(alt1|alt2|...)\b matches at the 1-based position i of s
AltsAt(s, alts, i) ==
    {a \in DOMAIN alts :
        /\ OccursAt(s, alts[a], i)
        /\ WordBoundary(s, i - 1)
        /\ WordBoundary(s, i - 1 + Len(alts[a]))}

\* re.sub(r'\b(alt1|alt2|...)\b', '', s), scanning from position i
RECURSIVE SubWordsFrom(_, _, _)
SubWordsFrom(s, alts, i) ==
    IF i > Len(s) THEN <<>>
    ELSE IF AltsAt(s, alts, i) # {}
         THEN SubWordsFrom(s, alts, i + Len(alts[SetMin(AltsAt(s, alts, i))]))
    ELSE <<s[i]>> \o SubWordsFrom(s, alts, i + 1)

SubWords(s, alts) == SubWordsFrom(s, alts, 1)

-----------------------------------------------------------------------------
(* events.py: channel names, the EPG lookup and the EPG match *)

\* the dict COUNTRY_CODES, in insertion order (the key 'espa\~na' is written
\* without its tilde; no input of the model holds that letter)
COUNTRY_CODES == <<
    <<<<"u", "s", "a">>, <<"u", "s">>>>, <<<<"u", "n", "i", "t", "e", "d", " ", "s", "t", "a", "t", "e", "s">>, <<"u", "s">>>>, <<<<"a", "m", "e", "r", "i", "c", "a">>, <<"u", "s">>>>,
    <<<<"u", "k">>, <<"u", "k">>>>, <<<<"u", "n", "i", "t", "e", "d", " ", "k", "i", "n", "g", "d", "o", "m">>, <<"u", "k">>>>, <<<<"b", "r", "i", "t", "a", "i", "n">>, <<"u", "k">>>>,
    <<<<"e", "n", "g", "l", "a", "n", "d">>, <<"u", "k">>>>,
    <<<<"c", "a", "n", "a", "d", "a">>, <<"c", "a">>>>, <<<<"c", "a", "n">>, <<"c", "a">>>>,
    <<<<"a", "u", "s", "t", "r", "a", "l", "i", "a">>, <<"a", "u">>>>, <<<<"a", "u", "s">>, <<"a", "u">>>>,
    <<<<"n", "e", "w", " ", "z", "e", "a", "l", "a", "n", "d">>, <<"n", "z">>>>, <<<<"n", "e", "w", "z", "e", "a", "l", "a", "n", "d">>, <<"n", "z">>>>,
    <<<<"g", "e", "r", "m", "a", "n", "y">>, <<"d", "e">>>>, <<<<"d", "e", "u", "t", "s", "c", "h", "l", "a", "n", "d">>, <<"d", "e">>>>, <<<<"g", "e", "r", "m", "a", "n">>, <<"d", "e">>>>,
    <<<<"f", "r", "a", "n", "c", "e">>, <<"f", "r">>>>, <<<<"f", "r", "e", "n", "c", "h">>, <<"f", "r">>>>,
    <<<<"s", "p", "a", "i", "n">>, <<"e", "s">>>>, <<<<"s", "p", "a", "n", "i", "s", "h">>, <<"e", "s">>>>, <<<<"e", "s", "p", "a", "n", "a">>, <<"e", "s">>>>,
    <<<<"i", "t", "a", "l", "y">>, <<"i", "t">>>>, <<<<"i", "t", "a", "l", "i", "a", "n">>, <<"i", "t">>>>, <<<<"i", "t", "a", "l", "i", "a">>, <<"i", "t">>>>,
    <<<<"c", "r", "o", "a", "t", "i", "a">>, <<"h", "r">>>>, <<<<"h", "r", "v", "a", "t", "s", "k", "a">>, <<"h", "r">>>>,
    <<<<"s", "e", "r", "b", "i", "a">>, <<"r", "s">>>>, <<<<"s", "r", "b", "i", "j", "a">>, <<"r", "s">>>>,
    <<<<"n", "e", "t", "h", "e", "r", "l", "a", "n", "d", "s">>, <<"n", "l">>>>, <<<<"h", "o", "l", "l", "a", "n", "d">>, <<"n", "l">>>>, <<<<"d", "u", "t", "c", "h">>, <<"n", "l">>>>,
    <<<<"p", "o", "r", "t", "u", "g", "a", "l">>, <<"p", "t">>>>, <<<<"p", "o", "r", "t", "u", "g", "u", "e", "s", "e">>, <<"p", "t">>>>,
    <<<<"p", "o", "l", "a", "n", "d">>, <<"p", "l">>>>, <<<<"p", "o", "l", "i", "s", "h">>, <<"p", "l">>>>, <<<<"p", "o", "l", "s", "k", "a">>, <<"p", "l">>>>,
    <<<<"g", "r", "e", "e", "c", "e">>, <<"g", "r">>>>, <<<<"g", "r", "e", "e", "k">>, <<"g", "r">>>>,
    <<<<"b", "u", "l", "g", "a", "r", "i", "a">>, <<"b", "g">>>>, <<<<"b", "u", "l", "g", "a", "r", "i", "a", "n">>, <<"b", "g">>>>,
    <<<<"i", "s", "r", "a", "e", "l">>, <<"i", "l">>>>, <<<<"h", "e", "b", "r", "e", "w">>, <<"i", "l">>>>,
    <<<<"m", "a", "l", "a", "y", "s", "i", "a">>, <<"m", "y">>>>, <<<<"m", "a", "l", "a", "y">>, <<"m", "y">>>> >>

unknown == <<"u", "n", "k", "n", "o", "w", "n">>

\* key in COUNTRY_CODES
IsCountryName(key) == \E k \in DOMAIN COUNTRY_CODES : COUNTRY_CODES[k][1] = key

\* COUNTRY_CODES.get(key, default)
CountryCode(key, default) ==
    IF IsCountryName(key)
    THEN COUNTRY_CODES[CHOOSE k \in DOMAIN COUNTRY_CODES : COUNTRY_CODES[k][1] = key][2]
    ELSE default

\* what r'\s*\(([^)]+)\)$' matches of the text t, or <<>>: group 2
ParenTail(t) ==
    LET u == SubSeq(t, SetMin({k \in 1..(Len(t) + 1) : k > Len(t) \/ ~IsSpace(t[k])}), Len(t))
    IN  IF /\ Len(u) >= 3
           /\ u[1] = "("
           /\ u[Len(u)] = ")"
           /\ \A k \in 2..(Len(u) - 1) : u[k] # ")"
        THEN SubSeq(u, 2, Len(u) - 1) ELSE <<>>

\* the lengths of group 1 with which r'^(.+?)\s*\(([^)]+)\)$' matches name
ParenSplits(name) == {j \in 1..Len(name) : ParenTail(From(name, j)) # <<>>}

\* the branch "Channel Name (Country)" of extract_channel_info
ParenInfo(name) ==
    LET j == SetMin(ParenSplits(name))
        country_part == lower(strip(ParenTail(From(name, j))))
    IN  [brand |-> strip(UpTo(name, j)),
         country |-> CountryCode(country_part, UpTo(country_part, 2))]

\* the values of i (0-based) at which ' '.join(ws[i:]).lower() is a country
CountrySuffixes(ws) ==
    {i \in 1..(Len(ws) - 1) : IsCountryName(lower(join(<<" ">>, From(ws, i))))}

\* the branch "Channel Name Country": the loop runs i downwards, so the
\* largest i wins
SuffixInfo(ws) ==
    LET i == SetMax(CountrySuffixes(ws))
    IN  [brand |-> strip(join(<<" ">>, UpTo(ws, i))),
         country |-> CountryCode(lower(join(<<" ">>, From(ws, i))), unknown)]

\* the positions of the country names that occur in name_lower
CountriesIn(name_lower) ==
    {k \in DOMAIN COUNTRY_CODES : Contains(COUNTRY_CODES[k][1], name_lower)}

\* the fallback of extract_channel_info: the first country name of the dict
\* that occurs anywhere in the lower-cased name
FallbackInfo(name_lower) ==
    LET k == SetMin(CountriesIn(name_lower))
    IN  [brand |-> title(strip(SubWords(name_lower, <<COUNTRY_CODES[k][1]>>))),
         country |-> COUNTRY_CODES[k][2]]

extract_channel_info(channel_name) ==
    LET name == strip(channel_name)
        ws == words(name)
    IN  IF ParenSplits(name) # {} THEN ParenInfo(name)
        ELSE IF Len(ws) >= 2 /\ CountrySuffixes(ws) # {} THEN SuffixInfo(ws)
        ELSE IF CountriesIn(lower(name)) # {} THEN FallbackInfo(lower(name))
        ELSE [brand |-> name, country |-> unknown]

\* set.add on the set kept as the sequence of its elements in insertion order
SetAdd(s, x) == IF \E k \in DOMAIN s : s[k] = x THEN s ELSE Append(s, x)

\* the alternatives of r'\b(tv|hd|sd|channel|network|sports?|news)\b'; the
\* greedy sports? tries sports before sport
CommonWords == <<<<"t", "v">>, <<"h", "d">>, <<"s", "d">>, <<"c", "h", "a", "n", "n", "e", "l">>, <<"n", "e", "t", "w", "o", "r", "k">>, <<"s", "p", "o", "r", "t", "s">>, <<"s", "p", "o", "r", "t">>, <<"n", "e", "w", "s">>>>

\* the dict network_abbrevs, in insertion order
network_abbrevs == <<
    <<<<"e", "s", "p", "n">>, <<"e", "s", "p", "n">>>>, <<<<"f", "o", "x", " ", "s", "p", "o", "r", "t", "s">>, <<"f", "o", "x", "s", "p", "o", "r", "t", "s">>>>,
    <<<<"s", "k", "y", " ", "s", "p", "o", "r", "t", "s">>, <<"s", "k", "y", "s", "p", "o", "r", "t", "s">>>>, <<<<"t", "n", "t", " ", "s", "p", "o", "r", "t", "s">>, <<"t", "n", "t", "s", "p", "o", "r", "t", "s">>>>,
    <<<<"b", "e", "i", "n", " ", "s", "p", "o", "r", "t", "s">>, <<"b", "e", "i", "n", "s", "p", "o", "r", "t", "s">>>> >>

AddCleanBrand(vs, brand_lower) ==
    LET clean_brand == strip(SubWords(brand_lower, CommonWords))
    IN  IF clean_brand # <<>> THEN SetAdd(vs, clean_brand) ELSE vs

AddNumberWords(vs, brand_lower) ==
    IF Contains(<<"t", "w", "o">>, brand_lower)
    THEN SetAdd(SetAdd(vs, replace(brand_lower, <<"t", "w", "o">>, <<"2">>)),
                replace(brand_lower, <<" ", "t", "w", "o">>, <<"2">>))
    ELSE IF Contains(<<"t", "h", "r", "e", "e">>, brand_lower)
    THEN SetAdd(SetAdd(vs, replace(brand_lower, <<"t", "h", "r", "e", "e">>, <<"3">>)),
                replace(brand_lower, <<" ", "t", "h", "r", "e", "e">>, <<"3">>))
    ELSE vs

AddSports(vs, brand_lower) ==
    IF Contains(<<"s", "p", "o", "r", "t", "s">>, brand_lower)
    THEN SetAdd(vs, replace(brand_lower, <<"s", "p", "o", "r", "t", "s">>, <<"s", "p", "o", "r", "t">>))
    ELSE IF Contains(<<"s", "p", "o", "r", "t">>, brand_lower)
    THEN SetAdd(vs, replace(brand_lower, <<"s", "p", "o", "r", "t">>, <<"s", "p", "o", "r", "t", "s">>))
    ELSE vs

RECURSIVE AddAbbrevs(_, _, _)
AddAbbrevs(vs, brand_lower, k) ==
    IF k > Len(network_abbrevs) THEN vs
    ELSE AddAbbrevs(
            IF Contains(network_abbrevs[k][1], brand_lower)
            THEN SetAdd(vs, replace(brand_lower, network_abbrevs[k][1], network_abbrevs[k][2]))
            ELSE vs,
            brand_lower, k + 1)

\* the set variations of generate_brand_variations, in insertion order
variations(brand) ==
    AddAbbrevs(AddSports(AddNumberWords(AddCleanBrand(<<>>, lower(brand)),
                                        lower(brand)),
                         lower(brand)),
               lower(brand), 1)

RECURSIVE Factorial(_)
Factorial(n) == IF n <= 1 THEN 1 ELSE n * Factorial(n - 1)

RemoveAt(s, i) == SubSeq(s, 1, i - 1) \o SubSeq(s, i + 1, Len(s))

\* the k-th arrangement of the elements of s
RECURSIVE Arrangement(_, _)
Arrangement(s, k) ==
    IF s = <<>> THEN <<>>
    ELSE LET f == Factorial(Len(s) - 1)
             i == (k \div f) + 1
         IN  <<s[i]>> \o Arrangement(RemoveAt(s, i), k % f)

\* list(variations): a set of str is iterated in the order of the hashes of
\* its elements, which the interpreter salts anew in every run
generate_brand_variations(brand, salt) ==
    Arrangement(variations(brand), salt % Factorial(Len(variations(brand))))

\* epg_lookup: a dict keeps its keys in insertion order; it is modelled as
\* the sequence of its items
HasKey(lookup, key) == \E k \in DOMAIN lookup : lookup[k].key = key

Item(lookup, key) == CHOOSE k \in DOMAIN lookup : lookup[k].key = key

\* epg_lookup[key] for a key that is present
Get(lookup, key) == lookup[Item(lookup, key)].ids

\* epg_lookup[key].append(line) on the defaultdict(list)
AppendTo(lookup, key, line) ==
    IF HasKey(lookup, key)
    THEN [lookup EXCEPT ![Item(lookup, key)].ids = Append(@, line)]
    ELSE Append(lookup, [key |-> key, ids |-> <<line>>])

\* re.sub(r'\s+', ' ', re.sub(r'[^a-zA-Z0-9\s]', ' ', s)).strip()
Clean(s) == strip(CollapseSpaces(SubNonAlnum(s)))

\* the mutant of DottedLine that forgets the key of the whole line
DottedLineWithoutLineKey(lookup, line, parts) ==
    LET clean_channel == Clean(parts[1])
        with_clean == AppendTo(lookup, lower(clean_channel), line)
    IN  IF Len(parts[Len(parts)]) = 2
        THEN AppendTo(with_clean,
                      lower(clean_channel) \o <<".">> \o parts[Len(parts)], line)
        ELSE with_clean

\* a line "ChannelName.country": the keys stored for it
DottedLine(lookup, line, parts) ==
    LET clean_channel == Clean(parts[1])
        with_clean == AppendTo(lookup, lower(clean_channel), line)
        with_line == AppendTo(with_clean, lower(line), line)
    IN  IF Len(parts[Len(parts)]) = 2
        THEN AppendTo(with_line,
                      lower(clean_channel) \o <<".">> \o parts[Len(parts)], line)
        ELSE with_line

\* a line without a dot
SimpleLine(lookup, line) ==
    AppendTo(AppendTo(lookup, lower(Clean(line)), line), lower(line), line)

\* one iteration of the loop of build_epg_lookup
BuildStep(lookup, raw) ==
    LET line == strip(raw)
    IN  IF line = <<>> \/ startswith(line, <<"#">>) THEN lookup
        ELSE IF Len(split(line, ".")) >= 2
        THEN DottedLine(lookup, line, split(line, "."))
        ELSE SimpleLine(lookup, line)

RECURSIVE build_epg_lookup(_)
build_epg_lookup(lines) ==
    IF lines = <<>> THEN <<>>
    ELSE BuildStep(build_epg_lookup(UpTo(lines, Len(lines) - 1)), lines[Len(lines)])

\* the terms a variation adds to search_terms
VariationTerms(variation, country) ==
    IF country # unknown
    THEN <<variation \o <<".">> \o country, variation>>
    ELSE <<variation>>

RECURSIVE AllVariationTerms(_, _)
AllVariationTerms(brand_variations, country) ==
    IF brand_variations = <<>> THEN <<>>
    ELSE VariationTerms(brand_variations[1], country)
            \o AllVariationTerms(Tail(brand_variations), country)

\* the mutant of search_terms that tries the bare brand before the brand
\* with its country
search_terms_brand_first(info, brand_variations) ==
    <<RemoveSpaces(lower(info.brand)), lower(info.brand)>>
    \o (IF info.country # unknown
        THEN <<lower(info.brand) \o <<".">> \o info.country,
               lower(info.brand) \o <<".">> \o info.country \o <<".", "h", "d">>>>
        ELSE <<>>)
    \o AllVariationTerms(brand_variations, info.country)

\* the list search_terms of find_best_epg_match
search_terms(info, brand_variations) ==
    (IF info.country # unknown
     THEN <<lower(info.brand) \o <<".">> \o info.country,
            lower(info.brand) \o <<".">> \o info.country \o <<".", "h", "d">>>>
     ELSE <<>>)
    \o <<RemoveSpaces(lower(info.brand)), lower(info.brand)>>
    \o AllVariationTerms(brand_variations, info.country)

\* the mutant of PickMatch that ignores the country
PickFirstMatch(matches, country) == matches[1]

\* the choice among the ids of the key that matched
PickMatch(matches, country) ==
    LET country_matches ==
            SelectSeq(matches, LAMBDA m : Contains(<<".">> \o country, lower(m)))
    IN  IF country # unknown /\ country_matches # <<>>
        THEN country_matches[1] ELSE matches[1]

\* the mutant of FuzzyMatch that tests the containment in one direction only
FuzzyMatchOneWay(lookup, brand_clean) ==
    LET hits == {k \in DOMAIN lookup : Contains(brand_clean, lookup[k].key)}
    IN  IF hits # {} THEN lookup[SetMin(hits)].ids[1] ELSE <<>>

\* the fallback loop over epg_lookup.items()
FuzzyMatch(lookup, brand_clean) ==
    LET hits == {k \in DOMAIN lookup :
                    \/ Contains(brand_clean, lookup[k].key)
                    \/ Contains(lookup[k].key, brand_clean)}
    IN  IF hits # {} THEN lookup[SetMin(hits)].ids[1] ELSE <<>>

\* the loop over search_terms, then the fallback
MatchTerms(terms, lookup, info) ==
    LET found == {k \in DOMAIN terms : HasKey(lookup, terms[k])}
    IN  IF found # {}
        THEN PickMatch(Get(lookup, terms[SetMin(found)]), info.country)
        ELSE FuzzyMatch(lookup, RemoveSpaces(lower(info.brand)))

-----------------------------------------------------------------------------
(* build_stream_map: the pool, the futures and the aggregation loop *)

NoFuture == [res |-> None, exc |-> FALSE]

NumRunning == Cardinality({u \in Urls : phase[u] = "running"})

\* position of a URL in the submission order
Pos(u) == CHOOSE k \in DOMAIN UrlSeq : UrlSeq[k] = u

\* dict.setdefault(k, v) on a mapping
SetDefaultOverwrites(m, k, v) ==
    [x \in (DOMAIN m) \cup {k} |-> IF x = k THEN v ELSE m[x]]

SetDefault(m, k, v) ==
    IF k \in DOMAIN m THEN m
    ELSE [x \in (DOMAIN m) \cup {k} |-> IF x = k THEN v ELSE m[x]]

\* the loop body with the truth test on res dropped and the submitted URL
\* used as the key
RecordUnconditionally(m, u, res) == SetDefault(m, candidates[u], res)

\* the loop body with the template index used as the key
RecordByTemplate(m, u, res) ==
    IF res # None THEN SetDefault(m, res.tpl, res) ELSE m

\* if res: id_to_url.setdefault(candidates[res], res)
\*   u is the URL the future was submitted for (futures[fut]); the code does
\*   not read it
Record(m, u, res) ==
    IF res # None THEN SetDefault(m, candidates[res], res) ELSE m

PoolInit ==
    /\ phase = [u \in Urls |-> "new"]
    /\ future = [u \in Urls |-> NoFuture]
    /\ submitted = 0
    /\ pcMain = "submit"
    /\ prefinished = {}
    /\ waiterQ = <<>>
    /\ yielded = {}
    /\ id_to_url = [i \in {} |-> None]
    /\ firstRaised = None
    /\ probedLate = {}
    /\ firstAccepted = [i \in {} |-> None]
    /\ snapshot = {}

\* line 370, one iteration of the dict comprehension: pool.submit(validate_single, u)
Submit ==
    /\ pcMain = "submit"
    /\ submitted < Len(UrlSeq)
    /\ submitted' = submitted + 1
    /\ phase' = [phase EXCEPT ![UrlSeq[submitted + 1]] = "queued"]
    /\ UNCHANGED <<future, pcMain, prefinished, waiterQ, yielded,
                   id_to_url, firstRaised, probedLate, firstAccepted, snapshot>>

\* an idle pool thread takes the oldest work item and enters validate_single
WorkerStart(u) ==
    /\ phase[u] = "queued"
    /\ \A v \in Urls : phase[v] = "queued" => Pos(u) <= Pos(v)
    /\ NumRunning < Workers
    /\ phase' = [phase EXCEPT ![u] = "running"]
    /\ UNCHANGED <<future, submitted, pcMain, prefinished, waiterQ, yielded,
                   id_to_url, firstRaised, probedLate, firstAccepted, snapshot>>

\* the worker thread runs validate_single(u) to its return and completes the
\* Future (set_result or set_exception), which hands it to the waiter that
\* as_completed installed. validate_single shares no state with the other
\* workers, so its probes are folded into this one step: o is one of the
\* outcomes the probe loop can end in.
WorkerFinish(u) ==
    /\ phase[u] = "running"
    /\ \E o \in validate_single[u] :
          /\ phase' = [phase EXCEPT ![u] = "finished"]
          /\ future' = [future EXCEPT ![u] = [res |-> o.res, exc |-> o.exc]]
          /\ firstRaised' = IF o.raised /\ firstRaised = None THEN u ELSE firstRaised
          /\ probedLate' = IF o.late THEN probedLate \cup {u} ELSE probedLate
          /\ firstAccepted' =
               IF o.res # None /\ ~o.exc /\ candidates[u] \notin DOMAIN firstAccepted
               THEN [i \in (DOMAIN firstAccepted) \cup {candidates[u]} |->
                        IF i = candidates[u] THEN u ELSE firstAccepted[i]]
               ELSE firstAccepted
    /\ waiterQ' = IF pcMain = "loop" THEN Append(waiterQ, u) ELSE waiterQ
    /\ UNCHANGED <<submitted, pcMain, prefinished, yielded, id_to_url, snapshot>>

\* line 371, the call of as_completed(futures): the futures that are already
\* finished are set aside to be yielded first, and a waiter is installed on
\* all of them
AsCompletedStart ==
    /\ pcMain = "submit"
    /\ submitted = Len(UrlSeq)
    /\ pcMain' = "loop"
    /\ prefinished' = {u \in Urls : phase[u] = "finished"}
    /\ snapshot' = {u \in Urls : phase[u] = "finished"}
    /\ UNCHANGED <<phase, future, submitted, waiterQ, yielded,
                   id_to_url, firstRaised, probedLate, firstAccepted>>

\* lines 372-374 for the future u that as_completed yields
LoopBody(u) ==
    /\ yielded' = yielded \cup {u}
    /\ IF future[u].exc
       THEN /\ pcMain' = "crashed"        \* fut.result() re-raises
            /\ UNCHANGED id_to_url
       ELSE /\ id_to_url' = Record(id_to_url, u, future[u].res)
            /\ UNCHANGED pcMain
    /\ UNCHANGED <<phase, future, submitted, firstRaised, probedLate, firstAccepted, snapshot>>

\* as_completed yields the futures found finished at its call first, in the
\* iteration order of a set of Future objects (unspecified)
YieldPrefinished ==
    /\ pcMain = "loop"
    /\ \E u \in prefinished :
          /\ prefinished' = prefinished \ {u}
          /\ UNCHANGED waiterQ
          /\ LoopBody(u)

\* then the futures the waiter collected, in the order they finished
YieldCompleted ==
    /\ pcMain = "loop"
    /\ prefinished = {}
    /\ waiterQ # <<>>
    /\ waiterQ' = Tail(waiterQ)
    /\ UNCHANGED prefinished
    /\ LoopBody(Head(waiterQ))

\* as_completed is exhausted, the with block ends, line 376 returns id_to_url
LoopEnd ==
    /\ pcMain = "loop"
    /\ yielded = Urls
    /\ pcMain' = "done"
    /\ UNCHANGED <<phase, future, submitted, prefinished, waiterQ,
                   yielded, id_to_url, firstRaised, probedLate, firstAccepted, snapshot>>

PoolNext ==
    \/ Submit
    \/ \E u \in Urls : WorkerStart(u)
    \/ \E u \in Urls : WorkerFinish(u)
    \/ AsCompletedStart
    \/ YieldPrefinished
    \/ YieldCompleted
    \/ LoopEnd

-----------------------------------------------------------------------------
(* One call of the probe loop, probe by probe *)

Impls == {"validate_single", "check"}

ValidateIdle ==
    /\ impl = "validate_single"
    /\ vurl = None
    /\ frame = EnterValidate

ValidateInit ==
    /\ impl \in Impls
    /\ vurl \in Urls
    /\ frame = EnterValidate

\* the HEAD probe of the current attempt and the tests on its status
HeadProbe ==
    /\ frame.pc = "head"
    /\ \E r \in Responses :
          frame' = [(IF impl = "check" THEN CheckAfterHead(frame, vurl, r)
                                       ELSE AfterHead(frame, vurl, r))
                       EXCEPT !.log = Append(frame.log, LogEntry(frame, r))]
    /\ UNCHANGED <<impl, vurl>>

\* the fallback GET probe of the current attempt and the tests on its status
GetProbe ==
    /\ frame.pc = "get"
    /\ \E r \in Responses :
          frame' = [(IF impl = "check" THEN CheckAfterGet(frame, vurl, r)
                                       ELSE AfterGet(frame, vurl, r))
                       EXCEPT !.log = Append(frame.log, LogEntry(frame, r))]
    /\ UNCHANGED <<impl, vurl>>

ValidateNext == HeadProbe \/ GetProbe

-----------------------------------------------------------------------------
(* SpecEpg: download_epg_ids_from_txt builds the lookup, make_playlist      *)
(* matches channel names against it                                         *)

\* the reference list holds at most MaxLines lines
MaxLines == 2

\* the hash salts a run may draw
NumSeeds == 6

\* the lines the reference list is drawn from
EpgLines == {
    <<"X", ".", "u", "k">>, <<"X", ".", "d", "e">>, <<"f", "o", "x", "s", "p", "o", "r", "t", "s">>, <<"A", "B", "C", " ", "S", "p", "o", "r", "t", "s", " ", "2", " ", "H", "D", ".", "u", "k">>,
    <<"s", "k", "y", "s", "p", "o", "r", "t", "s", "r", "a", "c", "i", "n", "g", ".", "u", "k">>, <<"s", "k", "y", "s", "p", "o", "r", "t", "s", "r", "a", "c", "i", "n", "g", ".", "u", "k", ".", "h", "d">>, <<"s", "k", "y", "s", "p", "o", "r", "t", "s", "r", "a", "c", "i", "n", "g", ".", "d", "e">>,
    <<"S", "k", "y", " ", "S", "p", "o", "r", "t", "s", " ", "R", "a", "c", "i", "n", "g", ".", "u", "k">>, <<"S", "k", "y", " ", "S", "p", "o", "r", "t", " ", "R", "a", "c", "i", "n", "g", ".", "u", "k">>, <<"S", "k", "y", "s", "p", "o", "r", "t", "s", " ", "R", "a", "c", "i", "n", "g", ".", "u", "k">> }

\* the channel names of the schedule
ChannelNames == {
    <<"S", "k", "y", " ", "S", "p", "o", "r", "t", "s", " ", "R", "a", "c", "i", "n", "g", " ", "U", "K">>, <<"X", " ", "U", "K">>, <<"X", " ", "G", "e", "r", "m", "a", "n", "y">>, <<"X">>, <<"X", " ", "(", "U", "K", ")">>,
    <<"f", "o", "x", "s", "p", "r", "t", "s">>, <<"x", "y", "z">> }

HashSeeds == 0..(NumSeeds - 1)

\* extract_channel_info(channel_name), tabulated over the names of the schedule
ChannelInfo == [n \in ChannelNames |-> extract_channel_info(n)]

\* the list search_terms of each name under each hash salt
SearchTerms ==
    [n \in ChannelNames |->
        [salt \in HashSeeds |->
            search_terms(ChannelInfo[n],
                         generate_brand_variations(ChannelInfo[n].brand, salt))]]

\* find_best_epg_match, for the hash salt of the run
find_best_epg_match(channel_name, lookup, salt) ==
    MatchTerms(SearchTerms[channel_name][salt], lookup, ChannelInfo[channel_name])

EpgIdle ==
    /\ pcEpg = "idle"
    /\ epg_text_lines = <<>>
    /\ epg_lookup = <<>>
    /\ hash_seed = 0
    /\ cname = <<>>
    /\ epg_id = <<>>

EpgInit ==
    /\ pcEpg = "build"
    /\ epg_text_lines = <<>>
    /\ epg_lookup = <<>>
    /\ hash_seed \in HashSeeds
    /\ cname = <<>>
    /\ epg_id = <<>>

\* one iteration of the loop of build_epg_lookup, over a line the list
\* does not hold yet
ReadLine(raw) ==
    /\ pcEpg = "build"
    /\ Len(epg_text_lines) < MaxLines
    /\ \A k \in DOMAIN epg_text_lines : epg_text_lines[k] # raw
    /\ epg_text_lines' = Append(epg_text_lines, raw)
    /\ epg_lookup' = BuildStep(epg_lookup, raw)
    /\ UNCHANGED <<pcEpg, hash_seed, cname, epg_id>>

\* build_epg_lookup returns; download_epg_ids_from_txt hands the lookup to
\* make_playlist (a failed download hands over {}, the lookup of no line)
EpgBuilt ==
    /\ pcEpg = "build"
    /\ pcEpg' = "match"
    /\ UNCHANGED <<epg_text_lines, epg_lookup, hash_seed, cname, epg_id>>

\* make_playlist matches one channel name
Resolve(channel_name) ==
    /\ pcEpg = "match"
    /\ cname' = channel_name
    /\ epg_id' = find_best_epg_match(channel_name, epg_lookup, hash_seed)
    /\ UNCHANGED <<pcEpg, epg_text_lines, epg_lookup, hash_seed>>

\* the script is run again over the same reference list: the interpreter
\* draws another hash salt, the lookup is built as before
NewRun ==
    /\ pcEpg = "match"
    /\ hash_seed' \in HashSeeds \ {hash_seed}
    /\ UNCHANGED <<pcEpg, epg_text_lines, epg_lookup, cname, epg_id>>

EpgNext ==
    \/ \E raw \in EpgLines : ReadLine(raw)
    \/ EpgBuilt
    \/ \E channel_name \in ChannelNames : Resolve(channel_name)
    \/ NewRun

-----------------------------------------------------------------------------
(* SpecEntries: _channel_entries, _extract_cid, extract_channel_ids and the *)
(* loop of make_playlist over the channel entries of one event              *)

\* a list or a mapping of the schedule holds at most MaxEntries entries
MaxEntries == 2

\* JSON scalars: a number or a string
JsonInt(n) == [t |-> "int", n |-> n, s |-> ""]

JsonStr(s) == [t |-> "str", n |-> 0, s |-> s]

\* str(x)
Str(x) == IF x.t = "int" THEN <<"0", "1", "2", "3">>[x.n + 1] ELSE x.s

\* an entry is a scalar or a dict that may hold "channel_id" and "channel_name"
ScalarEntry(x) == [kind |-> "scalar", value |-> x, has_id |-> FALSE, has_name |-> FALSE,
                   channel_id |-> JsonInt(0), channel_name |-> JsonStr("")]

DictEntry(has_id, has_name) ==
    [kind |-> "dict", value |-> JsonInt(0), has_id |-> has_id, has_name |-> has_name,
     channel_id |-> JsonInt(1), channel_name |-> JsonStr("Sky")]

Entries ==
    {ScalarEntry(JsonInt(2))} \cup
    {DictEntry(has_id, has_name) : has_id \in BOOLEAN, has_name \in BOOLEAN}

EntrySeqs(n) == UNION {[1..k -> Entries] : k \in 0..n}

\* the values of a channel field: None, a scalar, a list of entries, or a
\* dict that may hold "channel_id" and "channel_name" next to entries under
\* other keys
FieldValues ==
    {[type |-> "none", entry |-> DictEntry(FALSE, FALSE), items |-> <<>>]} \cup
    {[type |-> "scalar", entry |-> ScalarEntry(JsonInt(2)), items |-> <<>>]} \cup
    {[type |-> "list", entry |-> DictEntry(FALSE, FALSE), items |-> items] :
        items \in EntrySeqs(MaxEntries)} \cup
    {[type |-> "dict", entry |-> DictEntry(has_id, has_name), items |-> items] :
        has_id \in BOOLEAN, has_name \in BOOLEAN, items \in EntrySeqs(MaxEntries)}

\* the values the second field, "channels2", is drawn from
SecondFieldValues ==
    {val \in FieldValues :
        \/ val.type \in {"none", "scalar"}
        \/ val.type = "list" /\ val.items = <<DictEntry(TRUE, TRUE)>>
        \/ val.type = "dict" /\ val.items = <<>> /\ val.entry.has_id}

\* not val
Falsy(val) ==
    \/ val.type = "none"
    \/ val.type = "list" /\ val.items = <<>>
    \/ val.type = "dict" /\ ~val.entry.has_id /\ ~val.entry.has_name /\ val.items = <<>>

\* val.values() of a dict without "channel_id": the name, when there is one,
\* is a value like the entries under the other keys
DictValues(val) ==
    (IF val.entry.has_name THEN <<ScalarEntry(val.entry.channel_name)>> ELSE <<>>)
        \o val.items

\* what _channel_entries yields for one field
FieldEntries(val) ==
    IF Falsy(val) THEN <<>>
    ELSE IF val.type = "list" THEN val.items
    ELSE IF val.type = "dict"
         THEN IF val.entry.has_id THEN <<val.entry>> ELSE DictValues(val)
    ELSE <<val.entry>>

\* what _channel_entries(event) yields
channel_entries(ev) == FieldEntries(ev.channels) \o FieldEntries(ev.channels2)

\* item["channel_id"] raises KeyError
CidRaises(item) == item.kind = "dict" /\ ~item.has_id

\* _extract_cid(item), when it does not raise
extract_cid(item) ==
    IF item.kind = "dict" THEN Str(item.channel_id) ELSE Str(item.value)

\* ch["channel_name"] raises KeyError
NameRaises(ch) == ch.kind = "dict" /\ ~ch.has_name

\* cname of make_playlist, when it does not raise
NameOf(ch) == IF ch.kind = "dict" THEN ch.channel_name.s ELSE Str(ch.value)

EntriesIdle ==
    /\ event = [channels |-> [type |-> "none", entry |-> DictEntry(FALSE, FALSE), items |-> <<>>],
                channels2 |-> [type |-> "none", entry |-> DictEntry(FALSE, FALSE), items |-> <<>>]]
    /\ pcEntries = "idle"
    /\ cursor = 0
    /\ ids = {}
    /\ named = <<>>
    /\ produced = <<>>

EntriesInit ==
    /\ event \in [channels : FieldValues, channels2 : SecondFieldValues]
    /\ pcEntries = "extract"
    /\ cursor = 0
    /\ ids = {}
    /\ named = <<>>
    /\ produced = <<>>

\* extract_channel_ids: ids.update consumes the next entry
ExtractNext ==
    /\ pcEntries = "extract"
    /\ cursor < Len(channel_entries(event))
    /\ LET ch == channel_entries(event)[cursor + 1]
       IN  IF CidRaises(ch)
           THEN /\ pcEntries' = "raised"
                /\ UNCHANGED <<cursor, ids>>
           ELSE /\ ids' = ids \cup {extract_cid(ch)}
                /\ cursor' = cursor + 1
                /\ UNCHANGED pcEntries
    /\ UNCHANGED <<event, named, produced>>

\* extract_channel_ids returns; main goes on to make_playlist
ExtractDone ==
    /\ pcEntries = "extract"
    /\ cursor = Len(channel_entries(event))
    /\ pcEntries' = "playlist"
    /\ cursor' = 0
    /\ UNCHANGED <<event, ids, named, produced>>

\* make_playlist: one iteration of `for ch in _channel_entries(ev)`; an
\* entry whose identifier has no stream is passed over
PlaylistNext ==
    /\ pcEntries = "playlist"
    /\ cursor < Len(channel_entries(event))
    /\ LET ch == channel_entries(event)[cursor + 1]
       IN  IF NameRaises(ch) \/ CidRaises(ch)
           THEN /\ pcEntries' = "raised"
                /\ UNCHANGED <<cursor, named, produced>>
           ELSE /\ named' = Append(named, [cid |-> extract_cid(ch), cname |-> NameOf(ch)])
                /\ \E stream \in BOOLEAN :
                        produced' = IF stream
                                    THEN Append(produced, [cid |-> extract_cid(ch),
                                                           cname |-> NameOf(ch)])
                                    ELSE produced
                /\ cursor' = cursor + 1
                /\ UNCHANGED pcEntries
    /\ UNCHANGED <<event, ids>>

\* the loop of make_playlist ends
PlaylistDone ==
    /\ pcEntries = "playlist"
    /\ cursor = Len(channel_entries(event))
    /\ pcEntries' = "done"
    /\ UNCHANGED <<event, cursor, ids, named, produced>>

EntriesNext ==
    \/ ExtractNext
    \/ ExtractDone
    \/ PlaylistNext
    \/ PlaylistDone

-----------------------------------------------------------------------------
(* Specifications *)

PoolIdle ==
    /\ phase = [u \in Urls |-> "new"]
    /\ future = [u \in Urls |-> NoFuture]
    /\ submitted = 0
    /\ pcMain = "idle"
    /\ prefinished = {}
    /\ waiterQ = <<>>
    /\ yielded = {}
    /\ id_to_url = [i \in {} |-> None]
    /\ firstRaised = None
    /\ probedLate = {}
    /\ firstAccepted = [i \in {} |-> None]
    /\ snapshot = {}

Init == PoolInit /\ ValidateIdle /\ EpgIdle /\ EntriesIdle

Next == PoolNext /\ UNCHANGED <<validateVars, epgVars, entryVars>>

Spec == Init /\ [][Next]_vars

InitValidate == ValidateInit /\ PoolIdle /\ EpgIdle /\ EntriesIdle

NextValidate == ValidateNext /\ UNCHANGED <<poolVars, epgVars, entryVars>>

SpecValidate == InitValidate /\ [][NextValidate]_vars

\* every probe is made with a timeout and time.sleep(5) ends: a call that
\* has not returned takes its next step
SpecValidateFair == SpecValidate /\ WF_vars(NextValidate)


InitEpg == EpgInit /\ PoolIdle /\ ValidateIdle /\ EntriesIdle

NextEpg == EpgNext /\ UNCHANGED <<poolVars, validateVars, entryVars>>

SpecEpg == InitEpg /\ [][NextEpg]_vars

InitEntries == EntriesInit /\ PoolIdle /\ ValidateIdle /\ EpgIdle

NextEntries == EntriesNext /\ UNCHANGED <<poolVars, validateVars, epgVars>>

SpecEntries == InitEntries /\ [][NextEntries]_vars

-----------------------------------------------------------------------------
(* Claims about build_stream_map (Spec) *)

Accepted(u) == phase[u] = "finished" /\ ~future[u].exc /\ future[u].res # None

Rejected(u) == phase[u] = "finished" /\ ~future[u].exc /\ future[u].res = None

UrlsOf(i) == {u \in Urls : candidates[u] = i}

\* C1: once build_stream_map has returned, the keys of the StreamMap are
\* channel identifiers, and every identifier with a candidate that
\* validate_single accepted has its entry, whose URL is a template
\* instantiated with that same identifier.
C1_AcceptedIdHasOwnUrl ==
    pcMain = "done" =>
        /\ DOMAIN id_to_url \subseteq channel_ids
        /\ \A i \in channel_ids :
              (\E u \in UrlsOf(i) : Accepted(u)) =>
                  /\ i \in DOMAIN id_to_url
                  /\ \E tpl \in URL_TEMPLATES : id_to_url[i] = Format(tpl, i)

\* build_stream_map has returned; identifier 1 was accepted only on its
\* second mirror, identifier 2 on its first
C1_Witness ==
    /\ pcMain = "done"
    /\ Rejected(Format(1, 1))
    /\ Accepted(Format(2, 1))
    /\ Accepted(Format(1, 2))
    /\ id_to_url[1] = Format(2, 1)
    /\ id_to_url[2] = Format(1, 2)

\* C2: an identifier all of whose candidates were rejected has no key in the
\* StreamMap (no value at all, None included), at every moment and once
\* build_stream_map has returned; the loop does not fail on it.
C2_RejectedIdAbsent ==
    /\ pcMain # "crashed"
    /\ \A i \in DOMAIN id_to_url : id_to_url[i] # None
    /\ \A i \in channel_ids :
          (\A u \in UrlsOf(i) : Rejected(u)) => i \notin DOMAIN id_to_url

\* build_stream_map has returned with identifier 1 absent (every candidate
\* rejected) and identifier 2 present
C2_Witness ==
    /\ pcMain = "done"
    /\ \A u \in UrlsOf(1) : Rejected(u)
    /\ 1 \notin DOMAIN id_to_url
    /\ 2 \in DOMAIN id_to_url

\* C3 as stated: the entry of an identifier is always the accepted candidate
\* whose validation completed first.
C3_FirstCompletedWins ==
    \A i \in DOMAIN id_to_url : id_to_url[i] = firstAccepted[i]

C3_EntryIsFirstYielded ==
    \A i \in DOMAIN id_to_url :
        \/ id_to_url[i] = firstAccepted[i]
        \/ {id_to_url[i], firstAccepted[i]} \subseteq snapshot

C3_WriteOnce ==
    \A i \in DOMAIN id_to_url :
        i \in DOMAIN id_to_url' /\ id_to_url'[i] = id_to_url[i]

C3_OnlyLoopWrites ==
    id_to_url' # id_to_url =>
        /\ pcMain = "loop"
        /\ yielded' # yielded
        /\ phase' = phase /\ future' = future

\* C3, amended: the entry of an identifier is the accepted candidate that
\* as_completed yields first: the one that completed first, unless both it
\* and the entry were already finished when as_completed was called (those
\* are yielded in no specified order). An entry once written never changes,
\* and only a step of the aggregation loop changes the StreamMap.
C3_FirstYieldedWinsWriteOnce ==
    /\ []C3_EntryIsFirstYielded
    /\ [][C3_WriteOnce /\ C3_OnlyLoopWrites]_vars

\* both mirrors of identifier 1 were accepted after as_completed was called,
\* the second mirror first: it is the entry, the later acceptance is dropped
C3_Witness ==
    /\ pcMain = "done"
    /\ snapshot = {}
    /\ Accepted(Format(1, 1))
    /\ Accepted(Format(2, 1))
    /\ firstAccepted[1] = Format(2, 1)
    /\ id_to_url[1] = Format(2, 1)

\* C5: a probe that raises a transport error ends the call at once with
\* None (no probe follows it and no exception reaches the Future), the
\* aggregation loop never fails, and once build_stream_map has returned every
\* candidate has been validated and consumed, so that an identifier whose
\* candidate raised still has its entry when another of its candidates was
\* accepted.
C5_TransportErrorRejects ==
    /\ pcMain # "crashed"
    /\ probedLate = {}
    /\ \A u \in Urls : ~future[u].exc
    /\ firstRaised # None => Rejected(firstRaised)
    /\ pcMain = "done" =>
          /\ \A u \in Urls : phase[u] = "finished" /\ u \in yielded
          /\ firstRaised # None =>
                (\A u \in UrlsOf(candidates[firstRaised]) :
                    Accepted(u) => candidates[u] \in DOMAIN id_to_url)

\* the first mirror of identifier 1 raised, its second mirror was accepted
\* and is the entry of identifier 1
C5_Witness ==
    /\ pcMain = "done"
    /\ firstRaised = Format(1, 1)
    /\ Accepted(Format(2, 1))
    /\ 1 \in DOMAIN id_to_url
    /\ id_to_url[1] = Format(2, 1)

-----------------------------------------------------------------------------
(* Claims about the probe loop (SpecValidate) *)

Returned == frame.pc = "return"

HeadStatusAt(k, code) ==
    /\ k \in DOMAIN frame.log
    /\ frame.log[k].method = "head"
    /\ ~frame.log[k].r.exc
    /\ frame.log[k].r.status_code = code

\* C4 as stated: a HEAD answered 404 or 410 is the last probe of the call,
\* which returns None.
C4_GoneHeadRejects ==
    \A k \in DOMAIN frame.log :
        (HeadStatusAt(k, 404) \/ HeadStatusAt(k, 410)) =>
            k = Len(frame.log) /\ Returned /\ frame.res = None

\* C4, amended: a HEAD answered 404 is the last probe of the call, which
\* returns None whatever attempts remain; a HEAD answered 410 is, like any
\* other status, followed by the GET probe of the same attempt.
C4_NotFoundHeadRejects ==
    \A k \in DOMAIN frame.log :
        /\ HeadStatusAt(k, 404) =>
              k = Len(frame.log) /\ Returned /\ frame.res = None
        /\ HeadStatusAt(k, 410) =>
              \/ k = Len(frame.log) /\ frame.pc = "get"
              \/ k < Len(frame.log) /\ frame.log[k + 1].method = "get"
                    /\ frame.log[k + 1].attempt = frame.log[k].attempt

\* the HEAD of the first attempt was answered 404: the call has returned
\* None with two attempts unused
C4_Witness ==
    /\ Len(frame.log) = 1
    /\ HeadStatusAt(1, 404)
    /\ frame.attempt = 1
    /\ Returned
    /\ frame.res = None

\* the probe at position k of the log was answered, with a status
AnsweredAt(k) == k \in DOMAIN frame.log /\ ~frame.log[k].r.exc

HeadsOfLog == {k \in DOMAIN frame.log : frame.log[k].method = "head"}

GetsOfLog == {k \in DOMAIN frame.log : frame.log[k].method = "get"}

RateLimitedHeads == {k \in DOMAIN frame.log : HeadStatusAt(k, 429)}

\* the probe at position k ended its attempt without a result: the next
\* probe, if the attempts are not used up, is the HEAD of the next attempt,
\* and otherwise the call has returned None
MovesToNextAttempt(k) ==
    IF frame.log[k].attempt < MaxAttempts
    THEN \/ /\ k = Len(frame.log)
            /\ frame.pc = "head"
            /\ frame.attempt = frame.log[k].attempt + 1
         \/ /\ k < Len(frame.log)
            /\ frame.log[k + 1].method = "head"
            /\ frame.log[k + 1].attempt = frame.log[k].attempt + 1
    ELSE k = Len(frame.log) /\ Returned /\ frame.res = None

\* the call has returned: the URL if its last probe was answered 200,
\* None otherwise, and no exception
AcceptedOrRejected ==
    /\ ~frame.exc
    /\ frame.log # <<>>
    /\ IF AnsweredAt(Len(frame.log)) /\ frame.log[Len(frame.log)].r.status_code = 200
       THEN frame.res = vurl ELSE frame.res = None

C12_AtMostThreeAttempts ==
    /\ frame.attempt \in 1..MaxAttempts
    /\ Cardinality(HeadsOfLog) <= 3
    /\ \A k \in HeadsOfLog : \A j \in HeadsOfLog : k # j => frame.log[k].attempt # frame.log[j].attempt
    /\ \A k \in RateLimitedHeads : MovesToNextAttempt(k)
    /\ frame.slept >= Cardinality(RateLimitedHeads)
    /\ Returned => AcceptedOrRejected

\* C12: for every sequence of probe responses the validation of a URL ends,
\* with the URL accepted or rejected, after at most 3 attempts and so at
\* most 3 HEAD probes; a HEAD answered 429 uses up its attempt, is followed
\* by the sleep and then by the HEAD of the next attempt, with no GET in
\* between, and when the three attempts are used up the URL is rejected
C12_TerminatesWithinThreeAttempts == []C12_AtMostThreeAttempts /\ <>Returned

\* three HEAD probes answered 429: three sleeps, no GET, the URL rejected
C12_Witness ==
    /\ Len(frame.log) = 3
    /\ \A k \in 1..3 : HeadStatusAt(k, 429) /\ frame.log[k].attempt = k
    /\ frame.slept = 3
    /\ Returned
    /\ frame.res = None

\* C13: a GET probe is the second probe of an attempt whose HEAD was
\* answered with a status other than 200, 404 and 429, so an attempt has at
\* most one GET and none without its HEAD; a GET answered 200 accepts the
\* URL, a GET answered 404 rejects it with no further attempt, and a GET
\* answered otherwise moves on to the next attempt without a sleep
C13_GetIsSecondStep ==
    /\ \A k \in GetsOfLog :
        /\ k > 1
        /\ frame.log[k - 1].method = "head"
        /\ frame.log[k - 1].attempt = frame.log[k].attempt
        /\ AnsweredAt(k - 1)
        /\ frame.log[k - 1].r.status_code \notin {200, 404, 429}
        /\ \A j \in GetsOfLog : j # k => frame.log[j].attempt # frame.log[k].attempt
        /\ (AnsweredAt(k) /\ frame.log[k].r.status_code = 200) =>
                k = Len(frame.log) /\ Returned /\ frame.res = vurl
        /\ (AnsweredAt(k) /\ frame.log[k].r.status_code = 404) =>
                k = Len(frame.log) /\ Returned /\ frame.res = None
        /\ (AnsweredAt(k) /\ frame.log[k].r.status_code \notin {200, 404}) =>
                MovesToNextAttempt(k)
    /\ frame.pc = "get" =>
        /\ frame.log # <<>>
        /\ frame.log[Len(frame.log)].method = "head"
        /\ frame.log[Len(frame.log)].attempt = frame.attempt
    /\ frame.slept <= Cardinality(RateLimitedHeads)

\* a GET answered 503 in the first attempt, then the HEAD of the second
\* attempt, and no sleep
C13_Witness ==
    /\ Len(frame.log) = 3
    /\ frame.log[1].method = "head" /\ AnsweredAt(1) /\ frame.log[1].r.status_code = 503
    /\ frame.log[2].method = "get" /\ AnsweredAt(2) /\ frame.log[2].r.status_code = 503
    /\ frame.log[3].method = "head" /\ frame.log[3].attempt = 2
    /\ frame.slept = 0

-----------------------------------------------------------------------------
(* Claims about the EPG match (SpecEpg) *)

\* a match has been made against the finished lookup
Matched == pcEpg = "match" /\ cname # <<>>

\* the lines read so far contain the line l
HasLine(l) == \E k \in DOMAIN epg_text_lines : epg_text_lines[k] = l

\* the set of the elements of a sequence
Range(s) == {s[k] : k \in DOMAIN s}

\* the keys tried in a fixed order: the lower-cased brand with its country,
\* the same with ".hd", the brand without blanks, the lower-cased brand
CountryKeys(info) ==
    IF info.country = unknown THEN <<>>
    ELSE <<lower(info.brand) \o <<".">> \o info.country,
           lower(info.brand) \o <<".">> \o info.country \o <<".", "h", "d">> >>

BrandKeys(info) == <<RemoveSpaces(lower(info.brand)), lower(info.brand)>>

\* the key a variation v matches with, when it matches: v with the country
\* before v alone
VariationKey(v, info) ==
    IF info.country # unknown /\ HasKey(epg_lookup, v \o <<".">> \o info.country)
    THEN v \o <<".">> \o info.country ELSE v

VariationKeys(info) ==
    {VariationKey(v, info) : v \in Range(variations(info.brand))} \cap
        {epg_lookup[k].key : k \in DOMAIN epg_lookup}

\* the first key of the sequence keys that the lookup holds, in a set
FirstPresent(keys) ==
    LET present == {k \in DOMAIN keys : HasKey(epg_lookup, keys[k])}
    IN  IF present = {} THEN {} ELSE {keys[SetMin(present)]}

\* the keys one of which is the key the match stops at
MatchedKeys(info) ==
    IF FirstPresent(CountryKeys(info)) # {} THEN FirstPresent(CountryKeys(info))
    ELSE IF FirstPresent(BrandKeys(info)) # {} THEN FirstPresent(BrandKeys(info))
    ELSE VariationKeys(info)

\* the first of matches that holds ".country" anywhere, else the first
ContainsPick(matches, country) ==
    LET with == {k \in DOMAIN matches : Contains(<<".">> \o country, lower(matches[k]))}
    IN  IF country # unknown /\ with # {} THEN matches[SetMin(with)] ELSE matches[1]

\* the first of matches that ends in ".country", else the first
SuffixPick(matches, country) ==
    LET with == {k \in DOMAIN matches : endswith(matches[k], <<".">> \o country)}
    IN  IF country # unknown /\ with # {} THEN matches[SetMin(with)] ELSE matches[1]

C7_SlugCountryKeyFirst ==
    (/\ Matched
     /\ ChannelInfo[cname].country # unknown
     /\ HasKey(epg_lookup, RemoveSpaces(lower(ChannelInfo[cname].brand))
                              \o <<".">> \o ChannelInfo[cname].country)) =>
        epg_id \in Range(Get(epg_lookup,
                             RemoveSpaces(lower(ChannelInfo[cname].brand))
                                \o <<".">> \o ChannelInfo[cname].country))

\* the ids of the keys of a set
IdsOf(keys) == UNION {Range(Get(epg_lookup, key)) : key \in keys}

\* C7 amended: "Sky Sports Racing UK" has the brand "Sky Sports Racing" and
\* the country "uk", and the first key tried is "sky sports racing.uk".  The
\* keys are consulted in the order: lower-cased brand + "." + country, that
\* + ".hd", the brand without blanks, the lower-cased brand, then the keys of
\* the variations, then the fallback; the result of a later stage is
\* returned only when the lookup holds no key of an earlier stage
C7_CascadeOrder ==
    /\ ChannelInfo[<<"S", "k", "y", " ", "S", "p", "o", "r", "t", "s", " ", "R", "a", "c", "i", "n", "g", " ", "U", "K">>] =
            [brand |-> <<"S", "k", "y", " ", "S", "p", "o", "r", "t", "s", " ", "R", "a", "c", "i", "n", "g">>, country |-> <<"u", "k">>]
    /\ \A salt \in HashSeeds :
            SearchTerms[<<"S", "k", "y", " ", "S", "p", "o", "r", "t", "s", " ", "R", "a", "c", "i", "n", "g", " ", "U", "K">>][salt][1] = <<"s", "k", "y", " ", "s", "p", "o", "r", "t", "s", " ", "r", "a", "c", "i", "n", "g", ".", "u", "k">>
    /\ Matched =>
        LET info == ChannelInfo[cname]
        IN  IF FirstPresent(CountryKeys(info)) # {}
            THEN epg_id \in IdsOf(FirstPresent(CountryKeys(info)))
            ELSE IF FirstPresent(BrandKeys(info)) # {}
            THEN epg_id \in IdsOf(FirstPresent(BrandKeys(info)))
            ELSE IF VariationKeys(info) # {}
            THEN epg_id \in IdsOf(VariationKeys(info))
            ELSE epg_id = <<>> \/ \E k \in DOMAIN epg_lookup : epg_id = epg_lookup[k].ids[1]

\* the lookup holds "skysportsracing.uk", and the match returns the id of
\* the key tried first, "sky sports racing.uk"
C7_Witness ==
    /\ Matched
    /\ cname = <<"S", "k", "y", " ", "S", "p", "o", "r", "t", "s", " ", "R", "a", "c", "i", "n", "g", " ", "U", "K">>
    /\ HasKey(epg_lookup, <<"s", "k", "y", "s", "p", "o", "r", "t", "s", "r", "a", "c", "i", "n", "g", ".", "u", "k">>)
    /\ HasKey(epg_lookup, <<"s", "k", "y", " ", "s", "p", "o", "r", "t", "s", " ", "r", "a", "c", "i", "n", "g", ".", "u", "k">>)
    /\ epg_id = <<"S", "k", "y", " ", "S", "p", "o", "r", "t", "s", " ", "R", "a", "c", "i", "n", "g", ".", "u", "k">>

\* the key at position p contains the brand slug or is contained in it
SubstringHit(p, slug) ==
    \/ Contains(slug, epg_lookup[p].key)
    \/ Contains(epg_lookup[p].key, slug)

\* C8 as stated: the slug "foxsprts" is similar enough to the key
\* "foxsports" (at least 0.60), so the fallback returns that key's id
C8_SimilarKeyMatches ==
    (/\ Matched
     /\ cname = <<"f", "o", "x", "s", "p", "r", "t", "s">>
     /\ HasKey(epg_lookup, <<"f", "o", "x", "s", "p", "o", "r", "t", "s">>)) =>
        epg_id = Get(epg_lookup, <<"f", "o", "x", "s", "p", "o", "r", "t", "s">>)[1]

\* C8 amended: when no exact or variation key hits, the fallback returns the
\* first id of the first key, in insertion order and of any length, that
\* contains the brand slug or is contained in it, and the empty result when
\* there is no such key; no similarity is computed.  The slugs "foxsprts"
\* and "xyz" against a lookup built from "foxsports" alone return empty
C8_SubstringFallback ==
    /\ (Matched /\ MatchedKeys(ChannelInfo[cname]) = {}) =>
        LET slug == RemoveSpaces(lower(ChannelInfo[cname].brand))
        IN  \/ /\ \A p \in DOMAIN epg_lookup : ~SubstringHit(p, slug)
               /\ epg_id = <<>>
            \/ \E p \in DOMAIN epg_lookup :
                /\ SubstringHit(p, slug)
                /\ \A q \in 1..(p - 1) : ~SubstringHit(q, slug)
                /\ epg_id = epg_lookup[p].ids[1]
    /\ (Matched /\ epg_text_lines = <<<<"f", "o", "x", "s", "p", "o", "r", "t", "s">>>> /\ cname \in {<<"f", "o", "x", "s", "p", "r", "t", "s">>, <<"x", "y", "z">>}) =>
        epg_id = <<>>

\* the fallback returns an id: the key "x" lies inside the slug "xyz"
C8_Witness ==
    /\ Matched
    /\ cname = <<"x", "y", "z">>
    /\ MatchedKeys(ChannelInfo[cname]) = {}
    /\ epg_id = <<"X", ".", "u", "k">>

\* C9 as stated: every non-empty prefix of the brand tokens of a line is a
\* key, spaced and as a slug, bare and with the country, and each key
\* resolves to the line; so for the line "ABC Sports 2 HD.uk"
C9_PrefixAndSlugKeys ==
    HasLine(<<"A", "B", "C", " ", "S", "p", "o", "r", "t", "s", " ", "2", " ", "H", "D", ".", "u", "k">>) =>
        \A key \in {<<"a", "b", "c", " ", "s", "p", "o", "r", "t", "s", " ", "2", " ", "h", "d">>, <<"a", "b", "c", "s", "p", "o", "r", "t", "s", "2", "h", "d">>, <<"a", "b", "c", " ", "s", "p", "o", "r", "t", "s", " ", "2">>, <<"a", "b", "c", "s", "p", "o", "r", "t", "s", "2">>,
                    <<"a", "b", "c", " ", "s", "p", "o", "r", "t", "s">>, <<"a", "b", "c", "s", "p", "o", "r", "t", "s">>, <<"a", "b", "c">>,
                    <<"a", "b", "c", " ", "s", "p", "o", "r", "t", "s", " ", "2", " ", "h", "d", ".", "u", "k">>, <<"a", "b", "c", "s", "p", "o", "r", "t", "s", "2", "h", "d", ".", "u", "k">>, <<"a", "b", "c", " ", "s", "p", "o", "r", "t", "s", " ", "2", ".", "u", "k">>,
                    <<"a", "b", "c", "s", "p", "o", "r", "t", "s", "2", ".", "u", "k">>, <<"a", "b", "c", " ", "s", "p", "o", "r", "t", "s", ".", "u", "k">>, <<"a", "b", "c", "s", "p", "o", "r", "t", "s", ".", "u", "k">>, <<"a", "b", "c", ".", "u", "k">>} :
            /\ HasKey(epg_lookup, key)
            /\ <<"A", "B", "C", " ", "S", "p", "o", "r", "t", "s", " ", "2", " ", "H", "D", ".", "u", "k">> \in Range(Get(epg_lookup, key))

\* the keys of each line of EpgLines by the amended rule: the lower-cased
\* cleaned text before the first dot, the lower-cased line, and the cleaned
\* text + "." + the last segment when that segment has two characters
C9_KeysOfLine == {
    <<<<"X", ".", "u", "k">>, {<<"x">>, <<"x", ".", "u", "k">>}>>,
    <<<<"X", ".", "d", "e">>, {<<"x">>, <<"x", ".", "d", "e">>}>>,
    <<<<"f", "o", "x", "s", "p", "o", "r", "t", "s">>, {<<"f", "o", "x", "s", "p", "o", "r", "t", "s">>}>>,
    <<<<"A", "B", "C", " ", "S", "p", "o", "r", "t", "s", " ", "2", " ", "H", "D", ".", "u", "k">>, {<<"a", "b", "c", " ", "s", "p", "o", "r", "t", "s", " ", "2", " ", "h", "d">>, <<"a", "b", "c", " ", "s", "p", "o", "r", "t", "s", " ", "2", " ", "h", "d", ".", "u", "k">>}>>,
    <<<<"s", "k", "y", "s", "p", "o", "r", "t", "s", "r", "a", "c", "i", "n", "g", ".", "u", "k">>, {<<"s", "k", "y", "s", "p", "o", "r", "t", "s", "r", "a", "c", "i", "n", "g">>, <<"s", "k", "y", "s", "p", "o", "r", "t", "s", "r", "a", "c", "i", "n", "g", ".", "u", "k">>}>>,
    <<<<"s", "k", "y", "s", "p", "o", "r", "t", "s", "r", "a", "c", "i", "n", "g", ".", "u", "k", ".", "h", "d">>, {<<"s", "k", "y", "s", "p", "o", "r", "t", "s", "r", "a", "c", "i", "n", "g">>, <<"s", "k", "y", "s", "p", "o", "r", "t", "s", "r", "a", "c", "i", "n", "g", ".", "u", "k", ".", "h", "d">>, <<"s", "k", "y", "s", "p", "o", "r", "t", "s", "r", "a", "c", "i", "n", "g", ".", "h", "d">>}>>,
    <<<<"s", "k", "y", "s", "p", "o", "r", "t", "s", "r", "a", "c", "i", "n", "g", ".", "d", "e">>, {<<"s", "k", "y", "s", "p", "o", "r", "t", "s", "r", "a", "c", "i", "n", "g">>, <<"s", "k", "y", "s", "p", "o", "r", "t", "s", "r", "a", "c", "i", "n", "g", ".", "d", "e">>}>>,
    <<<<"S", "k", "y", " ", "S", "p", "o", "r", "t", "s", " ", "R", "a", "c", "i", "n", "g", ".", "u", "k">>, {<<"s", "k", "y", " ", "s", "p", "o", "r", "t", "s", " ", "r", "a", "c", "i", "n", "g">>, <<"s", "k", "y", " ", "s", "p", "o", "r", "t", "s", " ", "r", "a", "c", "i", "n", "g", ".", "u", "k">>}>>,
    <<<<"S", "k", "y", " ", "S", "p", "o", "r", "t", " ", "R", "a", "c", "i", "n", "g", ".", "u", "k">>, {<<"s", "k", "y", " ", "s", "p", "o", "r", "t", " ", "r", "a", "c", "i", "n", "g">>, <<"s", "k", "y", " ", "s", "p", "o", "r", "t", " ", "r", "a", "c", "i", "n", "g", ".", "u", "k">>}>>,
    <<<<"S", "k", "y", "s", "p", "o", "r", "t", "s", " ", "R", "a", "c", "i", "n", "g", ".", "u", "k">>, {<<"s", "k", "y", "s", "p", "o", "r", "t", "s", " ", "r", "a", "c", "i", "n", "g">>, <<"s", "k", "y", "s", "p", "o", "r", "t", "s", " ", "r", "a", "c", "i", "n", "g", ".", "u", "k">>}>> }

\* C9 amended: for every line that is neither blank nor a comment the
\* builder registers, each mapped to the raw line, the lower-cased line and
\* the lower-cased cleaned text before its first dot (the whole cleaned line
\* when it has no dot), plus that text + "." + the last dot segment when the
\* segment has exactly two characters; it registers no prefix and no slug.
\* The single line "ABC Sports 2 HD.uk" yields exactly the keys
\* "abc sports 2 hd" and "abc sports 2 hd.uk"
C9_ThreeKeysPerLine ==
    /\ \A p \in DOMAIN epg_lookup :
            Range(epg_lookup[p].ids) =
                {row[1] : row \in {r \in C9_KeysOfLine :
                                      HasLine(r[1]) /\ epg_lookup[p].key \in r[2]}}
    /\ \A row \in C9_KeysOfLine :
            HasLine(row[1]) => \A key \in row[2] : HasKey(epg_lookup, key)
    /\ epg_text_lines = <<<<"A", "B", "C", " ", "S", "p", "o", "r", "t", "s", " ", "2", " ", "H", "D", ".", "u", "k">>>> =>
            epg_lookup = <<[key |-> <<"a", "b", "c", " ", "s", "p", "o", "r", "t", "s", " ", "2", " ", "h", "d">>, ids |-> <<<<"A", "B", "C", " ", "S", "p", "o", "r", "t", "s", " ", "2", " ", "H", "D", ".", "u", "k">>>>],
                           [key |-> <<"a", "b", "c", " ", "s", "p", "o", "r", "t", "s", " ", "2", " ", "h", "d", ".", "u", "k">>,
                            ids |-> <<<<"A", "B", "C", " ", "S", "p", "o", "r", "t", "s", " ", "2", " ", "H", "D", ".", "u", "k">>, <<"A", "B", "C", " ", "S", "p", "o", "r", "t", "s", " ", "2", " ", "H", "D", ".", "u", "k">>>>]>>

\* the lookup built from the single line "ABC Sports 2 HD.uk"
C9_Witness ==
    /\ epg_text_lines = <<<<"A", "B", "C", " ", "S", "p", "o", "r", "t", "s", " ", "2", " ", "H", "D", ".", "u", "k">>>>
    /\ {epg_lookup[p].key : p \in DOMAIN epg_lookup} =
            {<<"a", "b", "c", " ", "s", "p", "o", "r", "t", "s", " ", "2", " ", "h", "d">>, <<"a", "b", "c", " ", "s", "p", "o", "r", "t", "s", " ", "2", " ", "h", "d", ".", "u", "k">>}
    /\ ~HasKey(epg_lookup, <<"a", "b", "c", "s", "p", "o", "r", "t", "s", "2", "h", "d">>)

\* C10 as stated: matching the same channel name again against the same
\* lookup returns the same id, whatever the order of the set of variations,
\* and a match leaves the lookup unchanged
C10_SameNameSameId ==
    [][/\ (cname # <<>> /\ cname' = cname /\ epg_lookup' = epg_lookup) => epg_id' = epg_id
       /\ cname' # cname => epg_lookup' = epg_lookup]_vars

-----------------------------------------------------------------------------
(* Claims about the channel entries (SpecEntries) *)

\* the entry yields an identifier and a display name
WellFormed(ch) == ch.kind = "scalar" \/ (ch.has_id /\ ch.has_name)

\* C11: whatever the shape of the channel fields, no exception is raised; an
\* entry that cannot yield both an identifier and a display name is skipped
\* and every other entry of the event is still read, in order
C11_MalformedEntriesSkipped ==
    /\ pcEntries # "raised"
    /\ pcEntries = "done" =>
        LET good == SelectSeq(channel_entries(event), WellFormed)
        IN  named = [k \in DOMAIN good |->
                        [cid |-> extract_cid(good[k]), cname |-> NameOf(good[k])]]

=============================================================================
